---- MODULE Spec2Model ----
(***************************************************************************)
(* optimum-benchmark: the process launcher (ProcessLauncher.launch) and    *)
(* the harness it runs in the isolated process (target), as two processes  *)
(* that talk over a duplex pipe.                                           *)
(*                                                                         *)
(* Five specifications share the state and the actions of launch:         *)
(*   Spec         launch against target, the child may be killed or crash  *)
(*   SpecHarness  Spec, plus values other than "start" written to the      *)
(*                child's end of the pipe                                  *)
(*   SpecStub     launch against an arbitrary child process                *)
(*   SpecMonitor  Spec, where the watchdog process may fail to start       *)
(*   SpecLive     Spec with fair scheduling, where a message may be larger *)
(*                than the pipe's buffer                                   *)
(*                                                                         *)
(* SpecBench is the Benchmark class (track, finalize, merge) driven by any *)
(* sequence of calls, starting from two new instances.                     *)
(***************************************************************************)
EXTENDS Integers, Sequences, FiniteSets, TLC

VARIABLES
    pcParent,          \* position of launch (a step of LaunchOrder, or blocked)
    pcChild,           \* position of the isolated process in target
    device_isolation,  \* self.config.device_isolation
    monitor,           \* the device isolation process: "off", "running", "stopped"
    toChild,           \* pipe, parent -> child: values sent and not yet received
    toParent,          \* pipe, child -> parent
    exitcode,          \* isolated_process.exitcode: <<>> is None, <<c>> is c
    connClosed,        \* the child has called connection.close()
    workerResult,      \* what worker(*worker_args) did, once it was called
    pending,           \* exception propagating through target's finally block
    response,          \* launch's local `response`: <<>> before recv
    outcome,           \* what launch returned or raised
    received,          \* history: the values the child received, in order
    sent,              \* history: the messages the child sent, in order
    workerCalls,       \* history: number of calls of the worker
    killed,            \* history: the child was terminated from outside its code
    readTime,          \* history: "unread", or when launch polled the pipe
    injected,          \* history: number of non-start values written to the child
    lists,             \* the list objects of the Benchmark instances, by identity
    objs,              \* the Benchmark instances, in order of creation
    calls,             \* history: number of calls made on the Benchmark class
    last               \* history: the last Benchmark operation, with the state before it

\* The state of launch and target.
lvars == <<pcParent, pcChild, device_isolation, monitor, toChild, toParent,
           exitcode, connClosed, workerResult, pending, response, outcome,
           received, sent, workerCalls, killed, readTime, injected>>

\* The state of the Benchmark instances.
bvars == <<lists, objs, calls, last>>

vars == <<lvars, bvars>>

----------------------------------------------------------------------------
(* Bounds of the model *)

\* Non-start values written to the child's end of the pipe (SpecHarness).
MaxInject == 2

\* Messages an arbitrary child writes before it exits (SpecStub).
MaxStubMsgs == 2

----------------------------------------------------------------------------
(* Python values that travel on the pipe.  A str is Str(s); a dict with    *)
(* the single key k is Dict(k, v), v a sequence of text tokens.            *)

Str(s) == [kind |-> "str", key |-> s, val |-> <<>>]

Dict(k, v) == [kind |-> "dict", key |-> k, val |-> v]

START == Str("start")

\* `key in response`: key membership for a dict.  For a str it is a substring
\* test; every str of the model ("start", "stop", "begin") is shorter than the
\* three keys launch looks for, so the test is false.
PyIn(k, m) == IF m.kind = "dict" THEN m.key = k ELSE FALSE

\* True iff token t occurs in the text.
Contains(text, t) == \E i \in 1..Len(text) : text[i] = t

----------------------------------------------------------------------------
(* The worker and its report *)

Reports == {[ok |-> TRUE], [ok |-> FALSE]}

\* BenchmarkReport.to_dict: the mapping form of a report.
to_dict(r) == <<"ok", IF r.ok THEN "True" ELSE "False">>

\* BenchmarkReport.from_dict: the report of a mapping.
from_dict(m) == [ok |-> (m[2] = "True")]

\* Classes derived from Exception, and classes derived from BaseException only.
ExceptionClasses == {"ValueError", "RuntimeError"}

BaseOnlyClasses == {"SystemExit"}

ErrorMessages == {"bad input", "boom"}

NoResult == [kind |-> "none", value |-> <<>>, cls |-> "", msg |-> ""]

\* What a call of the worker can do: return a report, return a value that has
\* no to_dict (None: value <<>>), or raise.
WorkerOutcomes ==
    {[kind |-> "return", value |-> <<r>>, cls |-> "", msg |-> ""] : r \in Reports}
    \cup {[kind |-> "return", value |-> <<>>, cls |-> "", msg |-> ""]}
    \cup {[kind |-> "raise", value |-> <<>>, cls |-> c, msg |-> m] :
             c \in ExceptionClasses \cup BaseOnlyClasses, m \in ErrorMessages}

\* str(exception)
str(msg) == <<msg>>

\* traceback.format_exc() while handling an exception of class cls with message msg
format_exc(cls, msg) == <<"Traceback (most recent call last):", cls, msg>>

\* isinstance(e, Exception): what `except Exception` catches
IsException(cls) == cls \in ExceptionClasses

----------------------------------------------------------------------------
(* Results of launch *)

NoOutcome == [kind |-> "none", text |-> <<>>, code |-> <<>>, report |-> <<>>]

Returned(r) == [kind |-> "report", text |-> <<>>, code |-> <<>>, report |-> <<r>>]

\* RuntimeError("Isolated process exited with non-zero code {exitcode}")
ChildProcessCrashed(code) ==
    [kind |-> "ChildProcessCrashed", text |-> <<>>, code |-> code, report |-> <<>>]

\* RuntimeError("Isolated process did not send any response")
NoResponse == [kind |-> "NoResponse", text |-> <<>>, code |-> <<>>, report |-> <<>>]

ChildProcessError(text) ==
    [kind |-> "ChildProcessError", text |-> text, code |-> <<>>, report |-> <<>>]

\* RuntimeError("Received an unexpected response from isolated process: {response}")
UnexpectedResponse(m) ==
    [kind |-> "UnexpectedResponse", text |-> <<m.key>>, code |-> <<>>, report |-> <<>>]

----------------------------------------------------------------------------
(* Helpers of launch *)

\* Mutant of LaunchOrder: the monitor is stopped after the exit code check,
\* so only on the paths that pass it.
LaunchOrderStopLate ==
    <<"spawn", "start_monitor", "send_start", "join", "check_exitcode",
      "stop_monitor", "recv", "decode", "done">>

\* Mutant of LaunchOrder: "start" is sent before the monitor is started.
LaunchOrderStartFirst ==
    <<"spawn", "send_start", "start_monitor", "join", "stop_monitor",
      "check_exitcode", "recv", "decode", "done">>

\* Mutant of LaunchOrder: the pipe is read before the child is joined.
LaunchOrderRecvFirst ==
    <<"spawn", "start_monitor", "send_start", "recv", "join", "stop_monitor",
      "check_exitcode", "decode", "done">>

\* The statements of launch, in program order.
LaunchOrder ==
    <<"spawn", "start_monitor", "send_start", "join", "stop_monitor",
      "check_exitcode", "recv", "decode", "done">>

NextStep(pc) ==
    LET i == CHOOSE j \in 1..Len(LaunchOrder) : LaunchOrder[j] = pc
    IN  LaunchOrder[i + 1]

\* Launcher.start_device_isolation_process(pid): the watchdog runs.
start_device_isolation_process == "running"

\* Launcher.stop_device_isolation_process(): the watchdog is gone.
stop_device_isolation_process == "stopped"

\* The error of a start_device_isolation_process call that cannot start the
\* watchdog, as it leaves launch.
MonitorStartFailed ==
    [kind |-> "MonitorStartFailed", text |-> <<>>, code |-> <<>>, report |-> <<>>]

ChildAlive == pcChild \notin {"unborn", "exited"}

\* Mutant of NonZeroExit: only positive codes count (a signal gives a negative one).
NonZeroExitPositive(code) == code # <<>> /\ code[1] > 0

\* isolated_process.exitcode != 0 (None != 0 holds too)
NonZeroExit(code) == code # <<0>>

\* Mutant of Poll: the poll is skipped and recv is called directly.
PollAlways(q) == TRUE

\* parent_connection.poll(): data is available.  The parent keeps the child's
\* end of the pipe open, so a dead child does not make the pipe readable.
Poll(q) == Len(q) > 0

\* Mutant of Decode: the "exception" branch is missing.
DecodeNoException(m) ==
    IF PyIn("traceback", m) THEN ChildProcessError(m.val)
    ELSE IF PyIn("report", m) THEN Returned(from_dict(m.val))
    ELSE UnexpectedResponse(m)

\* The if/elif chain on `response`.
Decode(m) ==
    IF PyIn("traceback", m) THEN ChildProcessError(m.val)
    ELSE IF PyIn("exception", m) THEN ChildProcessError(m.val)
    ELSE IF PyIn("report", m) THEN Returned(from_dict(m.val))
    ELSE UnexpectedResponse(m)

----------------------------------------------------------------------------
(* Helpers of target *)

\* Mutant of IsStart: the comparison is made with another spelling, so the
\* parent's "start" is answered as a protocol violation.
IsStartUpper(v) == v = Str("START")

\* Mutant of IsStart: any received value starts the worker.
IsStartAny(v) == TRUE

\* response == "start"
IsStart(v) == v = START

\* Mutant of ViolationMessage: the reply is sent as a "traceback" message.
ViolationMessageAsTraceback(v) ==
    Dict("traceback", str("Isolated process received an unexpected response: ") \o <<v.key>>)

\* The reply to a value that is not "start".
ViolationMessage(v) ==
    Dict("exception", str("Isolated process received an unexpected response: ") \o <<v.key>>)

\* Mutant of FailureMessage: a ValueError is sent as an "exception" message.
FailureMessageClassified(cls, msg) ==
    IF cls = "ValueError" THEN Dict("exception", str(msg))
    ELSE Dict("traceback", format_exc(cls, msg))

\* The message of the `except Exception` branch.
FailureMessage(cls, msg) == Dict("traceback", format_exc(cls, msg))

\* Mutant of SuccessMessage: the report travels under another key.
SuccessMessageWrongKey(r) == Dict("result", to_dict(r))

\* The message of the `else` branch.
SuccessMessage(r) == Dict("report", to_dict(r))

\* Mutant of HarnessExitCode: an exception pending in the finally block
\* propagates and the interpreter exits with code 1.
HarnessExitCodePropagate(p) == IF p = <<>> THEN 0 ELSE 1

\* exit(0) in the finally block: SystemExit(0) replaces a pending exception.
HarnessExitCode(p) == 0

\* Exit codes of a child that is killed or crashes (SIGKILL seen by
\* multiprocessing, and a hard exit with 137).
KillCodes == {-9, 137}

----------------------------------------------------------------------------
(* The Benchmark class.  Seconds are whole numbers of nanoseconds; a        *)
(* throughput is float('-inf') or an exact fraction n/d in lowest terms     *)
(* with d > 0.                                                              *)

\* Calls made on the Benchmark class (constructor, track, finalize, merge)
\* after the two constructor calls of InitBench.
MaxCalls == 5

Abs(x) == IF x < 0 THEN -x ELSE x

RECURSIVE GCD(_, _)
GCD(a, b) == IF b = 0 THEN a ELSE GCD(b, a % b)

\* The number n/d, d # 0.
Num(n, d) ==
    LET g == GCD(Abs(n), Abs(d))
        sgn == IF d < 0 THEN -1 ELSE 1
    IN  [kind |-> "num", n |-> (sgn * n) \div g, d |-> (sgn * d) \div g]

\* throughput: Optional[float] = float('-inf')
Unset == [kind |-> "-inf", n |-> 0, d |-> 1]

\* t > 0.
Positive(t) == t.kind = "num" /\ t.n > 0

Add(a, b) == Num(a.n * b.d + b.n * a.d, a.d * b.d)

\* sum(throughputs): from 0, left to right
RECURSIVE Sum(_)
Sum(ts) == IF ts = <<>> THEN Num(0, 1) ELSE Add(Sum(SubSeq(ts, 1, Len(ts) - 1)), ts[Len(ts)])

\* Mutant of MeanThroughput: the throughputs are added up and not divided.
MeanThroughputTotal(ts) == Sum(ts)

\* sum(throughputs) / len(throughputs), for a non-empty list
MeanThroughput(ts) == LET t == Sum(ts) IN Num(t.n, t.d * Len(ts))

\* Mutant of Throughput: floor division.
ThroughputFloor(num_runs, duration) == Num(num_runs \div duration, 1)

\* self.num_runs / benchmark_duration, for a duration that is not 0
Throughput(num_runs, duration) == Num(num_runs, duration)

\* Durations handed to finalize.
Durations == {-1, 0, 1, 2}

Devices == {"cpu", "cuda", "tpu"}

\* What the clocks measure around the unit: perf_counter_ns() differences in
\* ns, Event.elapsed_time() in ms.
Elapsed == {3}

\* latency_ns / 1e9
CpuLatency(latency_ns) == latency_ns

\* latency_ms / 1e3
CudaLatency(latency_ms) == latency_ms * 1000000

\* Mutant of TrackExit: the sample is recorded in a finally block.
TrackExitFinally(lat, sample, raised) == Append(lat, sample)

\* Mutant of TrackExit: the sample is put at the front of the list.
TrackExitFront(lat, sample, raised) == IF raised THEN lat ELSE <<sample>> \o lat

\* The code of track after the yield: it runs only if the unit did not raise,
\* and appends the sample.
TrackExit(lat, sample, raised) == IF raised THEN lat ELSE Append(lat, sample)

\* Mutant of MergeCheck: only the first assertion.
MergeCheckSamplesOnly(lat, thr) == IF Len(lat) > 0 THEN "" ELSE "AssertionError"

\* The two assertions of merge on one input.
MergeCheck(lat, thr) ==
    IF ~(Len(lat) > 0) THEN "AssertionError"
    ELSE IF ~Positive(thr) THEN "AssertionError"
    ELSE ""

\* Mutant of MergeStart: the latencies of the first input are the accumulator.
MergeStartFirstInput(ls, os, ids) ==
    IF ids = <<>> THEN [lists |-> Append(ls, <<>>), acc |-> Len(ls) + 1]
    ELSE [lists |-> ls, acc |-> os[ids[1]].lat]

\* latencies, throughputs = [], []: the accumulator is a new list object.
MergeStart(ls, os, ids) == [lists |-> Append(ls, <<>>), acc |-> Len(ls) + 1]

\* The for loop of merge from input i on: the state of the lists, the
\* throughputs collected, and the error that ended it.
RECURSIVE MergeLoop(_, _, _, _, _, _)
MergeLoop(ls, os, acc, ids, i, ts) ==
    IF i > Len(ids) THEN [error |-> "", lists |-> ls, throughputs |-> ts]
    ELSE LET b == os[ids[i]]
             err == MergeCheck(ls[b.lat], b.thr)
         IN  IF err # "" THEN [error |-> err, lists |-> ls, throughputs |-> ts]
             ELSE MergeLoop([ls EXCEPT ![acc] = @ \o ls[b.lat]], os, acc, ids,
                            i + 1, Append(ts, b.thr))

\* Lengths of the lists handed to merge.
MergeLengths == {0, 1, 2}

\* The lists handed to merge: instances, in any order, with repetition.
MergeInputs == UNION {[1..k -> 1..Len(objs)] : k \in MergeLengths}

NoOp ==
    [op |-> "none", obj |-> 0, ids |-> <<>>, device |-> "", raised |-> FALSE,
     sample |-> 0, duration |-> 0, error |-> "", preLists |-> <<>>,
     preObjs |-> <<>>]

----------------------------------------------------------------------------
\* The launcher before launch is called.
InitLaunch ==
    /\ pcParent = "spawn"
    /\ pcChild = "unborn"
    /\ device_isolation \in BOOLEAN
    /\ monitor = "off"
    /\ toChild = <<>>
    /\ toParent = <<>>
    /\ exitcode = <<>>
    /\ connClosed = FALSE
    /\ workerResult = NoResult
    /\ pending = <<>>
    /\ response = <<>>
    /\ outcome = NoOutcome
    /\ received = <<>>
    /\ sent = <<>>
    /\ workerCalls = 0
    /\ killed = FALSE
    /\ readTime = "unread"
    /\ injected = 0

Init ==
    /\ InitLaunch
    /\ lists = <<>>
    /\ objs = <<>>
    /\ calls = 0
    /\ last = NoOp

----------------------------------------------------------------------------
(* launch *)

\* ctx.Pipe(), Process(target=target, ...), isolated_process.start()
Spawn ==
    /\ pcParent = "spawn"
    /\ pcChild' = "AwaitingStart"
    /\ pcParent' = NextStep(pcParent)
    /\ UNCHANGED bvars
    /\ UNCHANGED <<device_isolation, monitor, toChild, toParent, exitcode,
                   connClosed, workerResult, pending, response, outcome,
                   received, sent, workerCalls, killed, readTime, injected>>

\* if self.config.device_isolation: self.start_device_isolation_process(pid)
StartMonitor ==
    /\ pcParent = "start_monitor"
    /\ monitor' = IF device_isolation THEN start_device_isolation_process ELSE monitor
    /\ pcParent' = NextStep(pcParent)
    /\ UNCHANGED bvars
    /\ UNCHANGED <<pcChild, device_isolation, toChild, toParent, exitcode,
                   connClosed, workerResult, pending, response, outcome,
                   received, sent, workerCalls, killed, readTime, injected>>

\* The same statement when the watchdog cannot be started: the call raises,
\* and launch, which has no handler around it, ends with that error.
StartMonitorFails ==
    /\ pcParent = "start_monitor"
    /\ device_isolation
    /\ monitor' = "failed"
    /\ outcome' = MonitorStartFailed
    /\ pcParent' = "done"
    /\ UNCHANGED bvars
    /\ UNCHANGED <<pcChild, device_isolation, toChild, toParent, exitcode,
                   connClosed, workerResult, pending, response, received,
                   sent, workerCalls, killed, readTime, injected>>

\* parent_connection.send("start")
SendStart ==
    /\ pcParent = "send_start"
    /\ toChild' = Append(toChild, START)
    /\ pcParent' = NextStep(pcParent)
    /\ UNCHANGED bvars
    /\ UNCHANGED <<pcChild, device_isolation, monitor, toParent, exitcode,
                   connClosed, workerResult, pending, response, outcome,
                   received, sent, workerCalls, killed, readTime, injected>>

\* isolated_process.join(): returns once the child has terminated
Join ==
    /\ pcParent = "join"
    /\ ~ChildAlive
    /\ pcParent' = NextStep(pcParent)
    /\ UNCHANGED bvars
    /\ UNCHANGED <<pcChild, device_isolation, monitor, toChild, toParent,
                   exitcode, connClosed, workerResult, pending, response,
                   outcome, received, sent, workerCalls, killed, readTime,
                   injected>>

\* if self.config.device_isolation: self.stop_device_isolation_process()
StopMonitor ==
    /\ pcParent = "stop_monitor"
    /\ monitor' = IF device_isolation THEN stop_device_isolation_process ELSE monitor
    /\ pcParent' = NextStep(pcParent)
    /\ UNCHANGED bvars
    /\ UNCHANGED <<pcChild, device_isolation, toChild, toParent, exitcode,
                   connClosed, workerResult, pending, response, outcome,
                   received, sent, workerCalls, killed, readTime, injected>>

\* if isolated_process.exitcode != 0: raise RuntimeError(...)
CheckExitcode ==
    /\ pcParent = "check_exitcode"
    /\ IF NonZeroExit(exitcode)
       THEN /\ outcome' = ChildProcessCrashed(exitcode)
            /\ pcParent' = "done"
       ELSE /\ pcParent' = NextStep(pcParent)
            /\ UNCHANGED outcome
    /\ UNCHANGED bvars
    /\ UNCHANGED <<pcChild, device_isolation, monitor, toChild, toParent,
                   exitcode, connClosed, workerResult, pending, response,
                   received, sent, workerCalls, killed, readTime, injected>>

\* if parent_connection.poll(): response = parent_connection.recv()
\* else: raise RuntimeError(...).  A recv on an empty pipe blocks.
Recv ==
    /\ pcParent = "recv"
    /\ readTime' = IF ChildAlive THEN "child_alive" ELSE "child_exited"
    /\ IF Poll(toParent)
       THEN IF toParent # <<>>
            THEN /\ response' = <<Head(toParent)>>
                 /\ toParent' = Tail(toParent)
                 /\ pcParent' = NextStep(pcParent)
                 /\ UNCHANGED outcome
            ELSE /\ pcParent' = "blocked_in_recv"
                 /\ UNCHANGED <<response, toParent, outcome>>
       ELSE /\ outcome' = NoResponse
            /\ pcParent' = "done"
            /\ UNCHANGED <<response, toParent>>
    /\ UNCHANGED bvars
    /\ UNCHANGED <<pcChild, device_isolation, monitor, toChild, exitcode,
                   connClosed, workerResult, pending, received, sent,
                   workerCalls, killed, injected>>

\* the if/elif chain on response, and `return report`
DecodeResponse ==
    /\ pcParent = "decode"
    /\ response # <<>>
    /\ outcome' = Decode(response[1])
    /\ pcParent' = "done"
    /\ UNCHANGED bvars
    /\ UNCHANGED <<pcChild, device_isolation, monitor, toChild, toParent,
                   exitcode, connClosed, workerResult, pending, response,
                   received, sent, workerCalls, killed, readTime, injected>>

Launch ==
    \/ Spawn
    \/ StartMonitor
    \/ SendStart
    \/ Join
    \/ StopMonitor
    \/ CheckExitcode
    \/ Recv
    \/ DecodeResponse

----------------------------------------------------------------------------
(* target *)

\* One turn of the `while True` loop in which poll() finds a value: receive it,
\* leave the loop on "start", otherwise answer with an "exception" message.
ChildRecv ==
    /\ pcChild = "AwaitingStart"
    /\ toChild # <<>>
    /\ LET v == Head(toChild) IN
         /\ toChild' = Tail(toChild)
         /\ received' = Append(received, v)
         /\ IF IsStart(v)
            THEN /\ pcChild' = "Running"
                 /\ UNCHANGED <<toParent, sent>>
            ELSE /\ toParent' = Append(toParent, ViolationMessage(v))
                 /\ sent' = Append(sent, [msg |-> ViolationMessage(v), terminal |-> FALSE])
                 /\ UNCHANGED pcChild
    /\ UNCHANGED bvars
    /\ UNCHANGED <<pcParent, device_isolation, monitor, exitcode, connClosed,
                   workerResult, pending, response, outcome, workerCalls,
                   killed, readTime, injected>>

\* The set-up of the child and `report = worker(*worker_args)`.
ChildRunWorker(o) ==
    /\ pcChild = "Running"
    /\ workerResult' = o
    /\ workerCalls' = workerCalls + 1
    /\ pcChild' = "Handling"
    /\ UNCHANGED bvars
    /\ UNCHANGED <<pcParent, device_isolation, monitor, toChild, toParent,
                   exitcode, connClosed, pending, response, outcome, received,
                   sent, killed, readTime, injected>>

\* The except / else branches.  `except Exception` sends the traceback;
\* an exception that is no Exception goes on to the finally block; the else
\* branch calls report.to_dict(), which raises on a value that has none, and
\* sends the report.
ChildHandle ==
    /\ pcChild = "Handling"
    /\ IF workerResult.kind = "raise"
       THEN IF IsException(workerResult.cls)
            THEN LET m == FailureMessage(workerResult.cls, workerResult.msg) IN
                   /\ toParent' = Append(toParent, m)
                   /\ sent' = Append(sent, [msg |-> m, terminal |-> TRUE])
                   /\ UNCHANGED pending
            ELSE /\ pending' = <<workerResult.cls>>
                 /\ UNCHANGED <<toParent, sent>>
       ELSE IF workerResult.value = <<>>
            THEN /\ pending' = <<"AttributeError">>
                 /\ UNCHANGED <<toParent, sent>>
            ELSE LET m == SuccessMessage(workerResult.value[1]) IN
                   /\ toParent' = Append(toParent, m)
                   /\ sent' = Append(sent, [msg |-> m, terminal |-> TRUE])
                   /\ UNCHANGED pending
    /\ pcChild' = "Closing"
    /\ UNCHANGED bvars
    /\ UNCHANGED <<pcParent, device_isolation, monitor, toChild, exitcode,
                   connClosed, workerResult, response, outcome, received,
                   workerCalls, killed, readTime, injected>>

\* finally: connection.close()
ChildClose ==
    /\ pcChild = "Closing"
    /\ connClosed' = TRUE
    /\ pcChild' = "Exiting"
    /\ UNCHANGED bvars
    /\ UNCHANGED <<pcParent, device_isolation, monitor, toChild, toParent,
                   exitcode, workerResult, pending, response, outcome,
                   received, sent, workerCalls, killed, readTime, injected>>

\* finally: exit(0)
ChildExit ==
    /\ pcChild = "Exiting"
    /\ exitcode' = <<HarnessExitCode(pending)>>
    /\ pcChild' = "exited"
    /\ UNCHANGED bvars
    /\ UNCHANGED <<pcParent, device_isolation, monitor, toChild, toParent,
                   connClosed, workerResult, pending, response, outcome,
                   received, sent, workerCalls, killed, readTime, injected>>

Target ==
    \/ ChildRecv
    \/ \E o \in WorkerOutcomes : ChildRunWorker(o)
    \/ ChildHandle
    \/ ChildClose
    \/ ChildExit

----------------------------------------------------------------------------
(* The environment *)

\* The child is killed from outside, or crashes without running any more
\* Python code: it is gone at once, with a nonzero exit code.
Kill(c) ==
    /\ ChildAlive
    /\ pcChild' = "exited"
    /\ exitcode' = <<c>>
    /\ killed' = TRUE
    /\ UNCHANGED bvars
    /\ UNCHANGED <<pcParent, device_isolation, monitor, toChild, toParent,
                   connClosed, workerResult, pending, response, outcome,
                   received, sent, workerCalls, readTime, injected>>

\* Values other than "start" that a peer can write to the child.
InjectValues == {Str("stop"), Str("begin")}

\* A value other than "start" arrives on the child's end of the pipe.
Inject(v) ==
    /\ injected < MaxInject
    /\ injected' = injected + 1
    /\ toChild' = Append(toChild, v)
    /\ UNCHANGED bvars
    /\ UNCHANGED <<pcParent, pcChild, device_isolation, monitor, toParent,
                   exitcode, connClosed, workerResult, pending, response,
                   outcome, received, sent, workerCalls, killed, readTime>>

\* What an arbitrary child can write: the three messages of target, a dict
\* with another key, and the parent's own "start".
StubMessages ==
    {Dict("traceback", format_exc("ValueError", "boom")),
     Dict("exception", str("boom")),
     Dict("status", str("boom")),
     START}
    \cup {Dict("report", to_dict(r)) : r \in Reports}

\* An arbitrary child writes a message.
StubSend(m) ==
    /\ ChildAlive
    /\ Len(sent) < MaxStubMsgs
    /\ toParent' = Append(toParent, m)
    /\ sent' = Append(sent, [msg |-> m, terminal |-> TRUE])
    /\ UNCHANGED bvars
    /\ UNCHANGED <<pcParent, pcChild, device_isolation, monitor, toChild,
                   exitcode, connClosed, workerResult, pending, response,
                   outcome, received, workerCalls, killed, readTime, injected>>

\* An arbitrary child terminates with any exit code.
StubExit(c) ==
    /\ ChildAlive
    /\ pcChild' = "exited"
    /\ exitcode' = <<c>>
    /\ UNCHANGED bvars
    /\ UNCHANGED <<pcParent, device_isolation, monitor, toChild, toParent,
                   connClosed, workerResult, pending, response, outcome,
                   received, sent, workerCalls, killed, readTime, injected>>

----------------------------------------------------------------------------
Next ==
    \/ Launch
    \/ Target
    \/ \E c \in KillCodes : Kill(c)

Spec == Init /\ [][Next]_vars

NextHarness ==
    \/ Next
    \/ \E v \in InjectValues : Inject(v)

SpecHarness == Init /\ [][NextHarness]_vars

\* Spec, without the assumption that the watchdog process can be started.
NextMonitor ==
    \/ Next
    \/ StartMonitorFails

SpecMonitor == Init /\ [][NextMonitor]_vars

NextStub ==
    \/ Launch
    \/ \E m \in StubMessages : StubSend(m)
    \/ \E c \in KillCodes \cup {0} : StubExit(c)

SpecStub == Init /\ [][NextStub]_vars

\* The send of the except / else branch when the pickled message is larger
\* than the free space of the pipe's buffer: connection.send writes what fits
\* and blocks until the parent reads, which launch does only after join.  No
\* complete message is in the pipe.
ChildSendBlocks ==
    /\ pcChild = "Handling"
    /\ workerResult.kind = "raise" => IsException(workerResult.cls)
    /\ workerResult.kind = "return" => workerResult.value # <<>>
    /\ pcChild' = "blocked_in_send"
    /\ UNCHANGED bvars
    /\ UNCHANGED <<pcParent, device_isolation, monitor, toChild, toParent,
                   exitcode, connClosed, workerResult, pending, response,
                   outcome, received, sent, workerCalls, killed, readTime,
                   injected>>

\* Spec with messages of any size.
NextLive ==
    \/ Next
    \/ ChildSendBlocks

\* Parent and child are both scheduled, and a call of the worker ends.
Fairness == WF_vars(Launch) /\ WF_vars(Target)

SpecLive == Init /\ [][NextLive]_vars /\ Fairness

----------------------------------------------------------------------------
(* Benchmark *)

\* The fields of Benchmark(): the default factory's new list (at address
\* lat) and throughput float('-inf').
Benchmark(lat) ==
    [lat |-> lat, thr |-> Unset, origin |-> "session", finalizeCalled |-> FALSE]

\* Benchmark(): a new instance with its own empty list and no throughput.
NewBenchmark ==
    /\ calls < MaxCalls
    /\ calls' = calls + 1
    /\ lists' = Append(lists, <<>>)
    /\ objs' = Append(objs, Benchmark(Len(lists) + 1))
    /\ last' = [NoOp EXCEPT !.op = "new", !.obj = Len(objs) + 1,
                            !.preLists = lists, !.preObjs = objs]
    /\ UNCHANGED lvars

\* with b.track(device): unit().  Another device raises ValueError before the
\* unit runs; an error of the unit is thrown into the generator at the yield
\* and leaves it.
Track(o, device, elapsed, raises) ==
    /\ calls < MaxCalls
    /\ calls' = calls + 1
    /\ LET sample == IF device = "cpu" THEN CpuLatency(elapsed) ELSE CudaLatency(elapsed)
           known == device \in {"cpu", "cuda"}
       IN  /\ lists' = IF known
                       THEN [lists EXCEPT ![objs[o].lat] = TrackExit(@, sample, raises)]
                       ELSE lists
           /\ last' = [NoOp EXCEPT !.op = "track", !.obj = o, !.device = device,
                                   !.raised = known /\ raises,
                                   !.sample = IF known THEN sample ELSE 0,
                                   !.error = IF ~known THEN "ValueError"
                                             ELSE IF raises THEN "UnitError" ELSE "",
                                   !.preLists = lists, !.preObjs = objs]
    /\ UNCHANGED objs
    /\ UNCHANGED lvars

\* b.finalize(benchmark_duration)
Finalize(o, duration) ==
    /\ calls < MaxCalls
    /\ calls' = calls + 1
    /\ objs' = [objs EXCEPT ![o].finalizeCalled = TRUE,
                            ![o].thr = IF duration = 0 THEN @
                                       ELSE Throughput(Len(lists[objs[o].lat]), duration)]
    /\ last' = [NoOp EXCEPT !.op = "finalize", !.obj = o, !.duration = duration,
                            !.error = IF duration = 0 THEN "ZeroDivisionError" ELSE "",
                            !.preLists = lists, !.preObjs = objs]
    /\ UNCHANGED lists
    /\ UNCHANGED lvars

\* Benchmark.merge(benchmarks)
Merge(ids) ==
    /\ calls < MaxCalls
    /\ calls' = calls + 1
    /\ LET start == MergeStart(lists, objs, ids)
           loop == MergeLoop(start.lists, objs, start.acc, ids, 1, <<>>)
           error == IF loop.error # "" THEN loop.error
                    ELSE IF Len(loop.throughputs) = 0 THEN "ZeroDivisionError"
                    ELSE ""
           \* a list that no instance holds is gone with the call
           kept == IF start.acc > Len(lists) THEN lists
                   ELSE SubSeq(loop.lists, 1, Len(lists))
       IN  /\ IF error # ""
              THEN /\ lists' = kept
                   /\ UNCHANGED objs
              ELSE /\ lists' = loop.lists
                   /\ objs' = Append(objs, [lat |-> start.acc,
                                            thr |-> MeanThroughput(loop.throughputs),
                                            origin |-> "merge",
                                            finalizeCalled |-> FALSE])
           /\ last' = [NoOp EXCEPT !.op = "merge", !.ids = ids, !.error = error,
                                   !.obj = IF error = "" THEN Len(objs) + 1 ELSE 0,
                                   !.preLists = lists, !.preObjs = objs]
    /\ UNCHANGED lvars

NextBench ==
    \/ NewBenchmark
    \/ \E o \in 1..Len(objs), device \in Devices, elapsed \in Elapsed, raises \in BOOLEAN :
          Track(o, device, elapsed, raises)
    \/ \E o \in 1..Len(objs), duration \in Durations : Finalize(o, duration)
    \/ \E ids \in MergeInputs : Merge(ids)

\* A session that has made two benchmarks with Benchmark() and nothing else.
InitBench ==
    /\ InitLaunch
    /\ device_isolation = FALSE
    /\ lists = << <<>>, <<>> >>
    /\ objs = << Benchmark(1), Benchmark(2) >>
    /\ calls = 0
    /\ last = NoOp

SpecBench == InitBench /\ [][NextBench]_vars

----------------------------------------------------------------------------
(* Properties *)

\* The terminal messages of the child: those sent after the worker ran.
Terminal == SelectSeq(sent, LAMBDA s : s.terminal)

GotStart == \E i \in 1..Len(received) : received[i] = START

ChildLeftByItself == pcChild = "exited" /\ ~killed

\* C1: when the child ended with a nonzero exit code, launch raises
\* ChildProcessCrashed with that code, whatever is waiting on the pipe; it has
\* read nothing from the pipe, and it goes on to the pipe only after exit code 0.
C1_NonzeroExitRaisesCrashed ==
    /\ (pcParent = "done" /\ exitcode # <<>> /\ exitcode # <<0>>)
          => (outcome = ChildProcessCrashed(exitcode) /\ response = <<>>
              /\ readTime = "unread")
    /\ (pcParent \in {"recv", "decode"}) => exitcode = <<0>>

\* C1 witness: the child sent its report, was killed before it exited, and
\* launch raised ChildProcessCrashed with the report still on the pipe.
C1_Witness ==
    /\ pcParent = "done"
    /\ outcome.kind = "ChildProcessCrashed"
    /\ outcome.code = <<-9>>
    /\ Len(toParent) = 1
    /\ toParent[1].key = "report"

\* C2 (as claimed): a child that received Start and left the harness by itself
\* has sent exactly one terminal message.
C2_ExactlyOneTerminalMessage ==
    (ChildLeftByItself /\ GotStart) => Len(Terminal) = 1

\* C3: the worker is called only after the child received START, which is then
\* the last value it received and the only START among them; a child that has
\* not received START is still waiting for it and has not called the worker.
C3_WorkerOnlyAfterStart ==
    /\ (workerCalls > 0 \/ pcChild \in {"Running", "Handling", "Closing", "Exiting"})
          => /\ received # <<>>
             /\ received[Len(received)] = START
             /\ \A i \in 1..(Len(received) - 1) : received[i] # START
    /\ ~GotStart => (workerCalls = 0 /\ workerResult = NoResult
                     /\ pcChild \in {"unborn", "AwaitingStart", "exited"})

\* C3 witness: the worker ran in a child that had received a value other than
\* START before START.
C3_Witness ==
    /\ workerCalls = 1
    /\ Len(received) = 2
    /\ received[1] = Str("stop")

\* C4: launch never polls its end of the pipe while the child is alive.
C4_ReadOnlyAfterJoin == readTime # "child_alive"

\* C4 witness: launch read the child's message after the child had exited.
C4_Witness == readTime = "child_exited" /\ response # <<>> /\ pcChild = "exited"

\* The errors the claim calls recognized (classified): raised on purpose.
Recognized(cls) == cls = "ValueError"

C6_WitnessUnexpected ==
    pcParent = "done" /\ response = <<START>> /\ outcome.kind = "UnexpectedResponse"

\* C7: when the worker returned a report and the child was not killed, launch
\* returns a report with the same mapping and the child's exit code is 0.
C7_ReportRoundTrip ==
    (pcParent = "done" /\ workerResult.kind = "return" /\ workerResult.value # <<>>
        /\ ~killed)
       => /\ outcome.kind = "report"
          /\ to_dict(outcome.report[1]) = to_dict(workerResult.value[1])
          /\ exitcode = <<0>>

\* C7 witness: launch returned the report {"ok": False} of the worker.
C7_Witness ==
    /\ pcParent = "done"
    /\ workerResult.value = <<[ok |-> FALSE]>>
    /\ outcome.kind = "report"
    /\ ~killed

\* C8 (as claimed): when the worker raised an error with message m (and the
\* child was not killed), launch raises ChildProcessError with a text that
\* contains m.
C8_WorkerErrorReported ==
    (pcParent = "done" /\ workerResult.kind = "raise" /\ ~killed)
       => (outcome.kind = "ChildProcessError" /\ Contains(outcome.text, workerResult.msg))

\* C9: launch never blocks in recv, and it raises NoResponse exactly when the
\* child exited with code 0 and left nothing on the pipe.
C9_NoResponse ==
    /\ pcParent # "blocked_in_recv"
    /\ (pcParent = "done" /\ exitcode = <<0>> /\ sent = <<>>) => outcome = NoResponse
    /\ outcome.kind = "NoResponse"
          => (exitcode = <<0>> /\ sent = <<>> /\ response = <<>> /\ pcParent = "done")

\* C9 witness: the child exited with code 0 without a message and launch
\* raised NoResponse.
C9_Witness ==
    pcParent = "done" /\ outcome = NoResponse /\ exitcode = <<0>> /\ toParent = <<>>

\* C10: a child that left the harness by itself had received START, has
\* closed its end of the pipe and has exit code 0, whatever the worker did.
C10_HarnessExitsZero ==
    ChildLeftByItself => (GotStart /\ connClosed /\ exitcode = <<0>>)

\* C10 witness: the worker raised, the child sent the trace and exited with 0.
C10_Witness ==
    /\ ChildLeftByItself
    /\ workerResult.kind = "raise"
    /\ exitcode = <<0>>
    /\ Len(Terminal) = 1

\* C10 second case: an error that `except Exception` does not catch.
C10_WitnessUncaught ==
    ChildLeftByItself /\ pending # <<>> /\ exitcode = <<0>> /\ connClosed

\* C11: with device isolation, the monitor runs only between its start and the
\* join of the child, it is stopped only once the child is gone, and every
\* launch that started it ends, whatever the result, with the monitor stopped.
C11_MonitorStoppedOnEveryOutcome ==
    /\ (pcParent = "done" /\ device_isolation) => monitor = "stopped"
    /\ monitor = "stopped" => (~ChildAlive /\ pcChild = "exited")
    /\ monitor = "running" => pcParent \in {"send_start", "join", "stop_monitor"}

\* C11 witness: launch raised ChildProcessCrashed and the monitor is stopped.
C11_Witness ==
    /\ pcParent = "done"
    /\ device_isolation
    /\ outcome.kind = "ChildProcessCrashed"
    /\ monitor = "stopped"

\* C11 other outcomes: NoResponse, ChildProcessError and a returned report.
C11_WitnessOtherOutcomes ==
    /\ pcParent = "done"
    /\ device_isolation
    /\ outcome.kind \in {"NoResponse", "ChildProcessError", "report"}
    /\ monitor = "stopped"

\* START has been written to the child's end of the pipe.
StartSent == GotStart \/ (\E i \in 1..Len(toChild) : toChild[i] = START)

\* C12 (as claimed): when the monitor cannot be started, launch still sends
\* Start and does not end before it has joined the child.
C12_MonitorFailureDoesNotPreventRun ==
    monitor = "failed"
       => /\ outcome.kind # "MonitorStartFailed"
          /\ (pcParent = "done" => (StartSent /\ pcChild = "exited"))

\* C13: every value other than START that the child receives is answered by
\* one Exception message that names the value, in order, and nothing else is
\* sent while the child waits; the child is in AwaitingStart, with the worker
\* not called, exactly as long as it has not received START (unless killed).
C13_ViolationKeepsAwaitingStart ==
    LET nonStart == SelectSeq(received, LAMBDA v : v # START)
        replies  == SelectSeq(sent, LAMBDA m : ~m.terminal)
    IN  /\ Len(replies) = Len(nonStart)
        /\ \A i \in 1..Len(replies) :
              /\ replies[i].msg.kind = "dict"
              /\ replies[i].msg.key = "exception"
              /\ Contains(replies[i].msg.val, nonStart[i].key)
        /\ (~GotStart /\ ChildAlive)
              => (pcChild = "AwaitingStart" /\ workerCalls = 0
                  /\ Len(sent) = Len(received) /\ exitcode = <<>>)
        /\ (GotStart /\ ChildAlive) => pcChild # "AwaitingStart"

\* C13 witness: the child answered two values other than START, stayed in
\* AwaitingStart, then received START and is in Running.
C13_Witness ==
    /\ received = <<Str("stop"), Str("begin"), START>>
    /\ pcChild = "Running"
    /\ Len(sent) = 2
    /\ sent[1].msg.key = "exception"

----------------------------------------------------------------------------
(* Properties of Benchmark, stated on the last call and the state before it *)

\* The latencies of instance i before the last call, and now.
PreList(i) == last.preLists[last.preObjs[i].lat]

CurList(i) == lists[objs[i].lat]

PreThr(i) == last.preObjs[i].thr

\* Instance i had at least one sample and a positive throughput.
ValidInput(i) == Len(PreList(i)) > 0 /\ PreThr(i).kind = "num" /\ PreThr(i).n > 0

RECURSIVE ConcatPre(_)
ConcatPre(ids) ==
    IF ids = <<>> THEN <<>> ELSE PreList(Head(ids)) \o ConcatPre(Tail(ids))

MergeCalled == last.op = "merge"

\* C14: merge of a non-empty list of benchmarks that all have samples and a
\* positive throughput returns a new benchmark whose latencies are the inputs'
\* latencies concatenated in input order and whose throughput, times the
\* number of inputs, is the sum of the inputs' throughputs.
C14_MergeConcatAndMean ==
    (MergeCalled /\ last.ids # <<>> /\ \A k \in 1..Len(last.ids) : ValidInput(last.ids[k]))
       => /\ last.error = ""
          /\ Len(objs) = Len(last.preObjs) + 1
          /\ last.obj = Len(objs)
          /\ CurList(last.obj) = ConcatPre(last.ids)
          /\ LET t == objs[last.obj].thr
                 total == Sum([k \in 1..Len(last.ids) |-> PreThr(last.ids[k])])
             IN  /\ t.kind = "num"
                 /\ t.d > 0
                 /\ t.n * Len(last.ids) * total.d = total.n * t.d

\* C14 witness: merge returned for two benchmarks with different latencies,
\* different numbers of samples and different throughputs.
C14_Witness ==
    /\ MergeCalled
    /\ last.error = ""
    /\ Len(last.ids) = 2
    /\ PreList(last.ids[1]) # PreList(last.ids[2])
    /\ PreThr(last.ids[1]) # PreThr(last.ids[2])
    /\ Len(CurList(last.obj)) = 2

\* C15: merge of the empty list fails with the error of the division by the
\* length 0 (EmptyMerge), merge of a list with a benchmark that has no samples
\* or no positive throughput fails with the assertion's error
\* (UnfinalizedMerge); in both cases no benchmark is returned or created.
C15_MergeRejectsInvalid ==
    MergeCalled
       => /\ last.ids = <<>> => last.error = "ZeroDivisionError"
          /\ (\E k \in 1..Len(last.ids) : ~ValidInput(last.ids[k]))
                => last.error = "AssertionError"
          /\ last.error # "" => (last.obj = 0 /\ objs = last.preObjs)

\* C15 witness: merge of a benchmark with samples that was never finalized
\* failed with the assertion's error.
C15_Witness ==
    /\ MergeCalled
    /\ last.error = "AssertionError"
    /\ Len(last.ids) = 1
    /\ Len(PreList(last.ids[1])) > 0
    /\ PreThr(last.ids[1]) = Unset

\* C15 second case: merge of the empty list failed.
C15_WitnessEmpty == MergeCalled /\ last.ids = <<>> /\ last.error = "ZeroDivisionError"

\* C16 (as claimed): finalize of a benchmark without samples, or with a
\* duration <= 0, fails and leaves the throughput as it was; no throughput
\* that is zero or negative is ever stored.
C16_FinalizeRejectsInvalid ==
    /\ (last.op = "finalize" /\ (Len(PreList(last.obj)) = 0 \/ last.duration <= 0))
          => (last.error # "" /\ objs[last.obj].thr = PreThr(last.obj))
    /\ \A i \in 1..Len(objs) : objs[i].thr = Unset \/ Positive(objs[i].thr)

\* C17: a scoped measurement on cpu or cuda whose unit raises ends with the
\* unit's error and leaves every latency list and every benchmark as it was.
C17_RaisingUnitRecordsNothing ==
    (last.op = "track" /\ last.raised)
       => /\ last.error = "UnitError"
          /\ lists = last.preLists
          /\ objs = last.preObjs

\* C17 witness: on cuda, the unit raised and the benchmark's one sample is
\* still its only one.
C17_Witness ==
    /\ last.op = "track"
    /\ last.raised
    /\ last.device = "cuda"
    /\ Len(CurList(last.obj)) = 1

\* C17 second case: the same on cpu.
C17_WitnessCpu ==
    last.op = "track" /\ last.raised /\ last.device = "cpu" /\ Len(CurList(last.obj)) = 1

\* C18: no two benchmarks hold the same list; a call of merge, returning or
\* failing, leaves every benchmark that existed before it with the same
\* latencies and throughput; a measurement on one benchmark (the result of a
\* merge included) changes the latencies of no other.
C18_MergeLeavesInputs ==
    /\ \A i, j \in 1..Len(objs) : i # j => objs[i].lat # objs[j].lat
    /\ MergeCalled
          => \A i \in 1..Len(last.preObjs) :
                objs[i] = last.preObjs[i] /\ CurList(i) = PreList(i)
    /\ last.op = "track"
          => \A i \in 1..Len(objs) : i # last.obj => CurList(i) = PreList(i)

\* C18 witness: a sample was appended to the result of a merge and the input
\* of that merge still has its own latencies.
C18_Witness ==
    /\ last.op = "track"
    /\ last.error = ""
    /\ objs[last.obj].origin = "merge"
    /\ Len(CurList(last.obj)) = 2
    /\ Len(CurList(1)) = 1

\* C18 second case: a merge of two benchmarks returned and they are as before.
C18_WitnessMerge ==
    MergeCalled /\ last.error = "" /\ Len(last.ids) = 2 /\ last.ids[1] # last.ids[2]

\* C19: finalize with a duration > 0 on a benchmark with n > 0 samples
\* succeeds, sets the throughput to n / duration, which is positive, and
\* leaves the latencies alone.
C19_FinalizeThroughput ==
    (last.op = "finalize" /\ Len(PreList(last.obj)) > 0 /\ last.duration > 0)
       => LET t == objs[last.obj].thr IN
            /\ last.error = ""
            /\ t.kind = "num"
            /\ t.d > 0
            /\ t.n * last.duration = Len(PreList(last.obj)) * t.d
            /\ t.n > 0
            /\ lists = last.preLists

\* C19 witness: 3 samples and duration 2 give 3/2.
C19_Witness ==
    /\ last.op = "finalize"
    /\ Len(CurList(last.obj)) = 3
    /\ last.duration = 2
    /\ objs[last.obj].thr = [kind |-> "num", n |-> 3, d |-> 2]

\* C20: a benchmark made by Benchmark() on which finalize was never called
\* has no throughput; a measurement that completes puts exactly its sample
\* at the end of the benchmark's latencies and changes
\* nothing else; no measurement removes or changes a sample.
C20_TrackAppendsOnly ==
    /\ \A i \in 1..Len(objs) :
          (objs[i].origin = "session" /\ ~objs[i].finalizeCalled) => objs[i].thr = Unset
    /\ (last.op = "track" /\ last.error = "")
          => /\ CurList(last.obj) = Append(PreList(last.obj), last.sample)
             /\ objs = last.preObjs
             /\ \A i \in 1..Len(objs) : i # last.obj => CurList(i) = PreList(i)
    /\ last.op = "track"
          => /\ Len(CurList(last.obj)) >= Len(PreList(last.obj))
             /\ SubSeq(CurList(last.obj), 1, Len(PreList(last.obj))) = PreList(last.obj)

\* C20 witness: a third sample, of another clock, was appended to a benchmark
\* that was never finalized.
C20_Witness ==
    /\ last.op = "track"
    /\ last.error = ""
    /\ Len(CurList(last.obj)) = 3
    /\ CurList(last.obj)[1] # CurList(last.obj)[3]
    /\ objs[last.obj].thr = Unset
    /\ ~objs[last.obj].finalizeCalled

\* C21: with device isolation, the monitor is started only once the child
\* process exists, and before "start" is sent: whenever "start" has been
\* sent, and so whenever the worker has been called, the monitor has been
\* started.  Without device isolation the monitor is never started or stopped.
C21_MonitorStartedBetweenSpawnAndStart ==
    /\ (device_isolation /\ monitor # "off") => pcChild # "unborn"
    /\ (device_isolation /\ (StartSent \/ workerCalls > 0)) => monitor # "off"
    /\ (device_isolation /\ pcParent = "send_start") => monitor = "running"
    /\ ~device_isolation => monitor = "off"

\* C21 witness: the worker has been called while the monitor runs.
C21_Witness == device_isolation /\ workerCalls > 0 /\ monitor = "running"

\* C21 second case: without device isolation launch has ended and the
\* monitor was left alone.
C21_WitnessNoIsolation == ~device_isolation /\ pcParent = "done" /\ monitor = "off"

Classified ==
    {"report", "ChildProcessCrashed", "NoResponse", "ChildProcessError",
     "UnexpectedResponse"}

\* C22 (as claimed): when parent and child are scheduled fairly and the
\* worker ends, launch ends, with a report or one of the four classified
\* failures.
C22_LaunchReachesDone == <>(pcParent = "done" /\ outcome.kind \in Classified)

\* C23 (as claimed): when the worker returned and turning its result into a
\* dict raised, the child, if it ended by itself, has sent a Traceback
\* message, and launch ends with ChildProcessError, not NoResponse.
C23_SerializationErrorReported ==
    (workerResult.kind = "return" /\ workerResult.value = <<>> /\ ChildLeftByItself)
       => /\ Len(Terminal) = 1
          /\ Terminal[1].msg.key = "traceback"
          /\ pcParent = "done" => outcome.kind = "ChildProcessError"

\* Everything the parent has written to the pipe, in order.
ParentSent == received \o toChild

\* C24: launch against target writes "start" to the pipe once and nothing
\* else; the child never answers with a protocol-violation message; the pipe
\* to the parent never holds more than one message, and what launch receives
\* is the child's terminal message, after which the pipe is empty.
C24_OnlyStartOnlyTerminal ==
    /\ ParentSent \in {<<>>, <<START>>}
    /\ pcParent \in {"join", "stop_monitor", "check_exitcode", "recv", "decode", "done"}
          => ParentSent = <<START>>
    /\ \A i \in 1..Len(sent) : sent[i].terminal
    /\ Len(toParent) <= 1
    /\ toParent # <<>> => toParent[1] = Terminal[1].msg
    /\ response # <<>>
          => (Len(Terminal) = 1 /\ response[1] = Terminal[1].msg /\ toParent = <<>>)

\* C24 witness: launch has received the one message the child sent.
C24_Witness ==
    /\ pcParent = "done"
    /\ received = <<START>>
    /\ Len(sent) = 1
    /\ response = <<sent[1].msg>>
    /\ toParent = <<>>

====
